---- MODULE Spec2Model ----
(***************************************************************************)
(* rasterio/mask.py: raster_geom_mask() and mask().                        *)
(*                                                                         *)
(* One call of either function is followed statement by statement.  World  *)
(* coordinates are integers in units of half a pixel, so that the half     *)
(* pixel padding of raster_geom_mask is the integer 1 and every window     *)
(* bound is an exact quotient by the pixel size 2.  An optional value      *)
(* (None in the source) is the empty tuple <<>>, a present value v is <<v>>.*)
(***************************************************************************)
EXTENDS Integers, Sequences, FiniteSets, TLC

\* ------------------------------------------------------------- bounds
Height == 2      \* rows of the raster
Width == 3       \* columns of the raster
Count == 2       \* bands of the raster
Reach == 2       \* shapes start at world coordinates -Reach .. Reach
MaxLen == 2      \* shapes have sides of 1 .. MaxLen half pixels

VARIABLES
    call,        \* the function entered and its arguments
    pc,          \* position in the source
    nodata,      \* mask(): the local `nodata`
    padding,     \* raster_geom_mask(): <<pad_x, pad_y>>, in half pixels
    window,      \* raster_geom_mask(): the local `window`
    extent,      \* raster_geom_mask(): <<transform, out_shape>> chosen at 93-100
    geom,        \* what raster_geom_mask returned: <<[mask, transform, window]>>
    out_image,   \* mask(): the local `out_image`, [data, mask]
    result,      \* what the entered function returned
    error,       \* the exception the call raised, "" when none
    warnings,    \* the warnings emitted so far
    calls        \* the collaborators invoked so far, in order, with the
                 \* arguments that place the computation

vars == <<call, pc, nodata, padding, window, extent, geom, out_image, result,
          error, warnings, calls>>

None == <<>>
Some(v) == <<v>>

\* ------------------------------------------------------------- arithmetic
FloorDiv(n, d) == IF d > 0 THEN n \div d ELSE (0 - n) \div (0 - d)
CeilDiv(n, d) == 0 - FloorDiv(0 - n, d)
Min(a, b) == IF a < b THEN a ELSE b
Max(a, b) == IF a > b THEN a ELSE b
MinOf(S) == CHOOSE x \in S : \A y \in S : x <= y
MaxOf(S) == CHOOSE x \in S : \A y \in S : x >= y

\* ------------------------------------------------------------- the raster
\* The affine transform of a raster covering the world box
\* [0, 2*Width] x [0, 2*Height] with pixels of 2 units; a north-up raster
\* has its origin at the top and a negative row scale e.
NativeTransform(north) ==
    [a |-> 2, e |-> IF north THEN 0 - 2 ELSE 2,
     c |-> 0, f |-> IF north THEN 2 * Height ELSE 0]

PixelValue(b, r, c) == (b + r + r + c) % 3

\* A raster dataset: its pixels, and its own validity mask, which marks the
\* pixels equal to the dataset's nodata value.
Raster(north, nd) ==
    [height |-> Height, width |-> Width, count |-> Count, nodata |-> nd,
     transform |-> NativeTransform(north),
     data |-> [b \in 1..Count |-> [r \in 1..Height |-> [c \in 1..Width |->
                  PixelValue(b, r, c)]]],
     invalid |-> [b \in 1..Count |-> [r \in 1..Height |-> [c \in 1..Width |->
                  nd # None /\ nd = Some(PixelValue(b, r, c))]]]]

NodataValues == {None, Some(0), Some(1)}
Rasters == {Raster(north, nd) : north \in BOOLEAN, nd \in NodataValues}

\* A shape is an axis-aligned rectangular polygon [x0, x1] x [y0, y1].
Intervals == {<<lo, lo + len>> : lo \in (0 - Reach)..Reach, len \in 1..MaxLen}
Shapes == {[x0 |-> ix[1], x1 |-> ix[2], y0 |-> iy[1], y1 |-> iy[2]] :
              ix \in Intervals, iy \in Intervals}

Window(col_off, row_off, width, height) ==
    [col_off |-> col_off, row_off |-> row_off, width |-> width, height |-> height]

\* Window.flatten()
Flatten(w) == <<w.col_off, w.row_off, w.width, w.height>>

\* raster.window_transform(window): the native transform translated by the
\* window's offset.
WindowTransform(raster, w) ==
    [raster.transform EXCEPT !.c = @ + raster.transform.a * w.col_off,
                             !.f = @ + raster.transform.e * w.row_off]

\* ------------------------------------------------------------- collaborators
\* rasterio.features.bounds of one shape: (left, bottom, right, top); for a
\* raster that is not north-up, bottom is the larger y.
Bounds(shape, north_up) ==
    IF north_up
    THEN [left |-> shape.x0, bottom |-> shape.y0, right |-> shape.x1, top |-> shape.y1]
    ELSE [left |-> shape.x0, bottom |-> shape.y1, right |-> shape.x1, top |-> shape.y0]

\* rasterio.features.geometry_window: the bounding box of the shapes, grown
\* by the padding (pad_x, pad_y count half pixels), turned into the pixel
\* window that covers it and intersected with the raster; the window
\* (0, 0, 0, 0) when nothing is left.
geometry_window(raster, shapes, north_up, pad_x, pad_y) ==
    LET t == raster.transform
        bs == {Bounds(shapes[i], north_up) : i \in 1..Len(shapes)}
        px == pad_x * (Max(t.a, 0 - t.a) \div 2)
        py == pad_y * (Max(t.e, 0 - t.e) \div 2)
        left == MinOf({b.left : b \in bs}) - px
        right == MaxOf({b.right : b \in bs}) + px
        bottom == IF north_up THEN MinOf({b.bottom : b \in bs}) - py
                              ELSE MaxOf({b.bottom : b \in bs}) + py
        top == IF north_up THEN MaxOf({b.top : b \in bs}) + py
                           ELSE MinOf({b.top : b \in bs}) - py
        col_start == Max(0, FloorDiv(left - t.c, t.a))
        col_stop == Min(raster.width, CeilDiv(right - t.c, t.a))
        row_start == Max(0, FloorDiv(top - t.f, t.e))
        row_stop == Min(raster.height, CeilDiv(bottom - t.f, t.e))
    IN  IF col_start < col_stop /\ row_start < row_stop
        THEN Window(col_start, row_start, col_stop - col_start, row_stop - row_start)
        ELSE Window(0, 0, 0, 0)

\* Whether the rasterizer burns output pixel (i, j), counted from 0, of a
\* grid placed by `transform`, for one shape: the pixel's centre lies in the
\* shape, or with all_touched the pixel and the shape overlap.
Burns(shape, transform, i, j, all_touched) ==
    LET xa == transform.c + transform.a * j
        xb == transform.c + transform.a * (j + 1)
        ya == transform.f + transform.e * i
        yb == transform.f + transform.e * (i + 1)
        px0 == Min(xa, xb)
        px1 == Max(xa, xb)
        py0 == Min(ya, yb)
        py1 == Max(ya, yb)
        cx == (px0 + px1) \div 2
        cy == (py0 + py1) \div 2
    IN  IF all_touched
        THEN /\ Max(px0, shape.x0) < Min(px1, shape.x1)
             /\ Max(py0, shape.y0) < Min(py1, shape.y1)
        ELSE /\ shape.x0 <= cx /\ cx <= shape.x1
             /\ shape.y0 <= cy /\ cy <= shape.y1

\* rasterio.features.geometry_mask: a grid of out_shape = (rows, columns)
\* that is False on the burnt pixels and True elsewhere, or the reverse
\* with invert.
geometry_mask(shapes, transform, invert, out_shape, all_touched) ==
    [i \in 1..out_shape[1] |-> [j \in 1..out_shape[2] |->
        LET burnt == \E k \in 1..Len(shapes) :
                        Burns(shapes[k], transform, i - 1, j - 1, all_touched)
        IN  IF invert THEN burnt ELSE ~burnt]]

\* raster.read(window=..., out_shape=..., masked=True): the pixels of the
\* window (of the whole raster when the window is None) sampled onto a grid
\* of out_shape = (bands, rows, columns), with the dataset's own validity
\* mask sampled alike.
read(raster, win, out_shape) ==
    LET w == IF win = None THEN Window(0, 0, raster.width, raster.height)
                           ELSE win[1]
        Row(i) == w.row_off + 1 + ((i - 1) * w.height) \div out_shape[2]
        Col(j) == w.col_off + 1 + ((j - 1) * w.width) \div out_shape[3]
        Grid(src) == [b \in 1..out_shape[1] |-> [i \in 1..out_shape[2] |->
                        [j \in 1..out_shape[3] |-> src[b][Row(i)][Col(j)]]]]
    IN  [data |-> Grid(raster.data), mask |-> Grid(raster.invalid)]

\* numpy.ma.MaskedArray.filled(fill_value)
filled_with(image, fill_value) ==
    [b \in DOMAIN image.data |-> [i \in DOMAIN image.data[b] |->
        [j \in DOMAIN image.data[b][i] |->
            IF image.mask[b][i][j] THEN fill_value ELSE image.data[b][i][j]]]]

\* ------------------------------------------------------------- raster_geom_mask
ConfigError == "crop and invert cannot both be True."
OverlapError == "Input shapes do not overlap raster."
OverlapWarning == "shapes are outside bounds of raster. Are they in different coordinate reference systems?"

\* lines 65-66 left out: the combination is never rejected
CropAndInvert_Unchecked(crop, invert) == FALSE

\* line 65
CropAndInvert(crop, invert) == crop /\ invert

\* lines 68-73 with the test on pad alone
Padding_IgnoresCrop(crop, pad) == IF pad THEN <<1, 1>> ELSE <<0, 0>>

\* lines 68-73: <<pad_x, pad_y>>, the padding 0.5 being one half pixel
Padding(crop, pad) == IF crop /\ pad THEN <<1, 1>> ELSE <<0, 0>>

\* line 75
NorthUp(raster) == raster.transform.e <= 0

\* line 82 with the flattened window compared to a list, [0, 0, 0, 0], which
\* no tuple equals
NoOverlap_ComparesList(w) == Flatten(w) = <<<<0, 0, 0, 0>>>>

\* line 82
NoOverlap(w) == Flatten(w) = <<0, 0, 0, 0>>

\* line 90 without the factor (not invert)
FullMask_Ones(raster, invert) ==
    [i \in 1..raster.height |-> [j \in 1..raster.width |-> TRUE]]

\* line 90: np.ones(shape=raster.shape[-2:], dtype='bool') * (not invert)
FullMask(raster, invert) ==
    [i \in 1..raster.height |-> [j \in 1..raster.width |-> ~invert]]

\* lines 94-95 with out_shape = (window.width, window.height)
CropExtent_Swapped(raster, w) == <<WindowTransform(raster, w), <<w.width, w.height>>>>

\* lines 94-95: <<transform, out_shape>> of a cropped mask
CropExtent(raster, w) == <<WindowTransform(raster, w), <<w.height, w.width>>>>

\* lines 99-100: <<transform, out_shape>> of a mask over the whole raster
FullExtent(raster) == <<raster.transform, <<raster.height, raster.width>>>>

\* A return of raster_geom_mask: to the caller when it was entered directly,
\* to line 173 of mask() otherwise.
Returns(value) ==
    /\ geom' = Some(value)
    /\ IF call.fn = "raster_geom_mask"
       THEN pc' = "done" /\ result' = Some(value)
       ELSE pc' = "read" /\ UNCHANGED result

Raises(message) ==
    /\ pc' = "raised"
    /\ error' = message

\* lines 65-66
CheckArguments ==
    /\ pc = "check"
    /\ IF CropAndInvert(call.crop, call.invert)
       THEN Raises(ConfigError)
       ELSE pc' = "pad" /\ UNCHANGED error
    /\ UNCHANGED <<call, nodata, padding, window, extent, geom, out_image, result,
                   warnings, calls>>

\* lines 68-73
ComputePadding ==
    /\ pc = "pad"
    /\ padding' = Padding(call.crop, call.pad)
    /\ pc' = "window"
    /\ UNCHANGED <<call, nodata, window, extent, geom, out_image, result, error,
                   warnings, calls>>

\* lines 75-78
ComputeWindow ==
    /\ pc = "window"
    /\ window' = Some(geometry_window(call.raster, call.shapes, NorthUp(call.raster),
                                      padding[1], padding[2]))
    /\ calls' = Append(calls, <<"geometry_window", NorthUp(call.raster),
                                 padding[1], padding[2]>>)
    /\ pc' = "overlap"
    /\ UNCHANGED <<call, nodata, padding, extent, geom, out_image, result, error,
                   warnings>>

\* lines 82-87 with the warning emitted before the test on crop
NoOverlapRaise_WarnsFirst ==
    /\ pc = "overlap"
    /\ NoOverlap(window[1])
    /\ call.crop
    /\ warnings' = Append(warnings, OverlapWarning)
    /\ Raises(OverlapError)
    /\ UNCHANGED <<call, nodata, padding, window, extent, geom, out_image, result,
                   calls>>

\* lines 82-84: the shapes miss the raster and a crop was asked for
NoOverlapRaise ==
    /\ pc = "overlap"
    /\ NoOverlap(window[1])
    /\ call.crop
    /\ Raises(OverlapError)
    /\ UNCHANGED <<call, nodata, padding, window, extent, geom, out_image, result,
                   warnings, calls>>

\* lines 82, 85-91: the shapes miss the raster and no crop was asked for
NoOverlapWarn ==
    /\ pc = "overlap"
    /\ NoOverlap(window[1])
    /\ ~call.crop
    /\ warnings' = Append(warnings, OverlapWarning)
    /\ Returns([mask |-> FullMask(call.raster, call.invert),
                transform |-> call.raster.transform,
                window |-> None])
    /\ UNCHANGED <<call, nodata, padding, window, extent, out_image, error, calls>>

\* lines 93-95
CropToWindow ==
    /\ pc = "overlap"
    /\ ~NoOverlap(window[1])
    /\ call.crop
    /\ extent' = Some(CropExtent(call.raster, window[1]))
    /\ pc' = "rasterize"
    /\ UNCHANGED <<call, nodata, padding, window, geom, out_image, result, error,
                   warnings, calls>>

\* lines 97-100 without line 98, so that the computed window is returned
KeepFullRaster_LeaksWindow ==
    /\ pc = "overlap"
    /\ ~NoOverlap(window[1])
    /\ ~call.crop
    /\ extent' = Some(FullExtent(call.raster))
    /\ pc' = "rasterize"
    /\ UNCHANGED <<call, nodata, padding, window, geom, out_image, result, error,
                   warnings, calls>>

\* lines 97-100
KeepFullRaster ==
    /\ pc = "overlap"
    /\ ~NoOverlap(window[1])
    /\ ~call.crop
    /\ window' = None
    /\ extent' = Some(FullExtent(call.raster))
    /\ pc' = "rasterize"
    /\ UNCHANGED <<call, nodata, padding, geom, out_image, result, error, warnings,
                   calls>>

\* lines 102-105
Rasterize ==
    /\ pc = "rasterize"
    /\ calls' = Append(calls, <<"geometry_mask", extent[1][1], extent[1][2]>>)
    /\ Returns([mask |-> geometry_mask(call.shapes, extent[1][1], call.invert,
                                       extent[1][2], call.all_touched),
                transform |-> extent[1][1],
                window |-> window])
    /\ UNCHANGED <<call, nodata, padding, window, extent, out_image, error, warnings>>

\* ------------------------------------------------------------- mask
\* lines 163-167 written `nodata or raster.nodata or 0`, which takes a
\* nodata of 0 for an absent one
EffectiveNodata_Falsy(given, raster) ==
    IF given \notin {None, Some(0)} THEN given
    ELSE IF raster.nodata \notin {None, Some(0)} THEN raster.nodata
    ELSE Some(0)

\* lines 163-167
EffectiveNodata(given, raster) ==
    IF given = None
    THEN IF raster.nodata # None THEN raster.nodata ELSE Some(0)
    ELSE given

\* lines 173-174
OutShape(raster, shape_mask) ==
    <<raster.count, Len(shape_mask), Len(shape_mask[1])>>

\* line 177 written out_image.mask = shape_mask: the raster's own mask is lost
ComposeMask_Overrides(image_mask, shape_mask) ==
    [b \in DOMAIN image_mask |-> [i \in DOMAIN image_mask[b] |->
        [j \in DOMAIN image_mask[b][i] |-> shape_mask[i][j]]]]

\* line 177: out_image.mask | shape_mask, the shape mask broadcast over the bands
ComposeMask(image_mask, shape_mask) ==
    [b \in DOMAIN image_mask |-> [i \in DOMAIN image_mask[b] |->
        [j \in DOMAIN image_mask[b][i] |-> image_mask[b][i][j] \/ shape_mask[i][j]]]]

\* lines 163-167
ResolveNodata ==
    /\ pc = "nodata"
    /\ nodata' = EffectiveNodata(nodata, call.raster)
    /\ pc' = "check"
    /\ UNCHANGED <<call, padding, window, extent, geom, out_image, result, error,
                   warnings, calls>>

\* lines 173-176
ReadRaster ==
    /\ pc = "read"
    /\ out_image' = Some(read(call.raster, geom[1].window,
                              OutShape(call.raster, geom[1].mask)))
    /\ calls' = Append(calls, <<"read", geom[1].window,
                                 OutShape(call.raster, geom[1].mask)>>)
    /\ pc' = "compose"
    /\ UNCHANGED <<call, nodata, padding, window, extent, geom, result, error,
                   warnings>>

\* line 177
Compose ==
    /\ pc = "compose"
    /\ out_image' = Some([out_image[1] EXCEPT
                            !.mask = ComposeMask(out_image[1].mask, geom[1].mask)])
    /\ pc' = "fill"
    /\ UNCHANGED <<call, nodata, padding, window, extent, geom, result, error,
                   warnings, calls>>

\* lines 179-182 with the fill done whatever `filled` is
FillAndReturn_IgnoresFilled ==
    /\ pc = "fill"
    /\ result' = Some([image |-> [data |-> filled_with(out_image[1], nodata[1]),
                                  mask |-> None],
                       transform |-> geom[1].transform])
    /\ pc' = "done"
    /\ UNCHANGED <<call, nodata, padding, window, extent, geom, out_image, error,
                   warnings, calls>>

\* lines 179-182: a plain array when filled, the masked array otherwise
FillAndReturn ==
    /\ pc = "fill"
    /\ result' = Some([image |-> IF call.filled
                                 THEN [data |-> filled_with(out_image[1], nodata[1]),
                                       mask |-> None]
                                 ELSE [data |-> out_image[1].data,
                                       mask |-> Some(out_image[1].mask)],
                       transform |-> geom[1].transform])
    /\ pc' = "done"
    /\ UNCHANGED <<call, nodata, padding, window, extent, geom, out_image, error,
                   warnings, calls>>

\* ------------------------------------------------------------- specification
Flags == [all_touched : BOOLEAN, invert : BOOLEAN, crop : BOOLEAN, pad : BOOLEAN]

\* raster_geom_mask(raster, shapes, all_touched, invert, crop, pad)
GeomMaskCalls ==
    {[fn |-> "raster_geom_mask", raster |-> r, shapes |-> <<s>>,
      all_touched |-> f.all_touched, invert |-> f.invert, crop |-> f.crop,
      pad |-> f.pad, nodata |-> None, filled |-> TRUE] :
        r \in Rasters, s \in Shapes, f \in Flags}

\* mask(raster, shapes, all_touched, invert, nodata, filled, crop, pad)
MaskCalls ==
    {[fn |-> "mask", raster |-> r, shapes |-> <<s>>,
      all_touched |-> f.all_touched, invert |-> f.invert, crop |-> f.crop,
      pad |-> f.pad, nodata |-> x[1], filled |-> x[2]] :
        r \in Rasters, s \in Shapes, f \in Flags,
        x \in NodataValues \X BOOLEAN}

Init ==
    /\ call \in GeomMaskCalls \cup MaskCalls
    /\ pc = IF call.fn = "mask" THEN "nodata" ELSE "check"
    /\ nodata = call.nodata
    /\ padding = None
    /\ window = None
    /\ extent = None
    /\ geom = None
    /\ out_image = None
    /\ result = None
    /\ error = ""
    /\ warnings = <<>>
    /\ calls = <<>>

Next ==
    \/ ResolveNodata
    \/ CheckArguments
    \/ ComputePadding
    \/ ComputeWindow
    \/ NoOverlapRaise
    \/ NoOverlapWarn
    \/ CropToWindow
    \/ KeepFullRaster
    \/ Rasterize
    \/ ReadRaster
    \/ Compose
    \/ FillAndReturn

Spec == Init /\ [][Next]_vars

\* ------------------------------------------------------------- properties
Invoked(name) == \E k \in 1..Len(calls) : calls[k][1] = name

\* A grid of `rows` rows and `cols` columns
HasShape(grid, rows, cols) ==
    /\ Len(grid) = rows
    /\ \A i \in 1..Len(grid) : Len(grid[i]) = cols

\* C1: a call with crop=True and invert=True fails with the configuration
\* error before anything is computed: it never gets past the argument check,
\* it invokes no collaborator, emits no warning and returns nothing, whatever
\* the raster, the shapes and the other arguments.
C1_ConfigErrorBeforeAnyComputation ==
    (call.crop /\ call.invert) =>
        /\ pc \in {"nodata", "check", "raised"}
        /\ pc = "raised" => error = ConfigError
        /\ calls = <<>>
        /\ warnings = <<>>
        /\ geom = None /\ out_image = None /\ result = None

C1_Witness ==
    /\ call.fn = "mask" /\ call.crop /\ call.invert /\ call.pad
    /\ pc = "raised" /\ error = ConfigError

\* C2: when the computed window is (0, 0, 0, 0) and crop=True, the call
\* fails with the overlap error: nothing is returned, only geometry_window
\* was invoked (no rasterization, no read) and no warning was emitted.
C2_OverlapErrorNoPartialResult ==
    (call.crop /\ ~call.invert /\ window # None
         /\ Flatten(window[1]) = <<0, 0, 0, 0>>) =>
        /\ pc \in {"overlap", "raised"}
        /\ pc = "raised" => error = OverlapError
        /\ geom = None /\ out_image = None /\ result = None
        /\ Len(calls) = 1 /\ ~Invoked("geometry_mask") /\ ~Invoked("read")
        /\ warnings = <<>>

C2_Witness ==
    /\ call.fn = "mask" /\ call.crop /\ ~call.invert
    /\ window # None /\ Flatten(window[1]) = <<0, 0, 0, 0>>
    /\ pc = "raised" /\ error = OverlapError

\* C3: when the computed window is (0, 0, 0, 0) and crop=False,
\* raster_geom_mask returns, for either value of invert, a mask of the
\* raster's (height, width) whose every element is `not invert`, the
\* raster's native transform and no window; it has emitted the overlap
\* warning and has not invoked the rasterizer.
C3_NoOverlapFullMask ==
    (~call.crop /\ pc # "overlap" /\ window # None
         /\ Flatten(window[1]) = <<0, 0, 0, 0>>) =>
        /\ error = ""
        /\ geom # None
        /\ HasShape(geom[1].mask, call.raster.height, call.raster.width)
        /\ \A i \in 1..call.raster.height : \A j \in 1..call.raster.width :
              geom[1].mask[i][j] = ~call.invert
        /\ geom[1].transform = call.raster.transform
        /\ geom[1].window = None
        /\ warnings = <<OverlapWarning>>
        /\ ~Invoked("geometry_mask")
        /\ call.fn = "raster_geom_mask" => pc = "done" /\ result = geom

C3_Witness ==
    /\ call.fn = "raster_geom_mask" /\ ~call.crop /\ call.invert
    /\ window # None /\ Flatten(window[1]) = <<0, 0, 0, 0>>
    /\ pc = "done" /\ result # None

\* C4: a call with crop=True whose computed window is not degenerate
\* does not fail, and what raster_geom_mask returns is the window that
\* geometry_window computed, a mask of (window.height, window.width) and the
\* transform raster.window_transform(window) of that window.
C4_CropReturnsWindowExtent ==
    (call.crop /\ ~call.invert /\ pc # "overlap" /\ window # None
         /\ Flatten(window[1]) # <<0, 0, 0, 0>>) =>
        /\ error = ""
        /\ window[1] = geometry_window(call.raster, call.shapes,
                                       call.raster.transform.e <= 0,
                                       calls[1][3], calls[1][4])
        /\ geom # None =>
              /\ geom[1].window = window
              /\ HasShape(geom[1].mask, window[1].height, window[1].width)
              /\ geom[1].transform = WindowTransform(call.raster, window[1])
              /\ call.fn = "raster_geom_mask" => pc = "done" /\ result = geom

C4_Witness ==
    /\ call.fn = "raster_geom_mask" /\ call.crop /\ pc = "done"
    /\ result # None /\ result[1].window # None
    /\ result[1].window[1].col_off + result[1].window[1].row_off > 0
    /\ result[1].transform # call.raster.transform
    /\ result[1].window[1].height # result[1].window[1].width

\* C5: with crop=False the computed window does not reach the output:
\* raster_geom_mask returns no window, the raster's native transform and a
\* mask of the raster's (height, width); mask() then reads with window=None
\* and out_shape (count, height, width), and gets the whole raster.
C5_NoCropNoWindow ==
    (~call.crop /\ geom # None) =>
        /\ geom[1].window = None
        /\ geom[1].transform = call.raster.transform
        /\ HasShape(geom[1].mask, call.raster.height, call.raster.width)
        /\ Invoked("read") =>
              /\ calls[Len(calls)] = <<"read", None, <<call.raster.count,
                                       call.raster.height, call.raster.width>>>>
              /\ out_image[1].data = call.raster.data

C5_Witness ==
    /\ call.fn = "mask" /\ ~call.crop /\ call.pad /\ pc = "done"
    /\ Invoked("geometry_mask") /\ Invoked("read")
    /\ Flatten(geometry_window(call.raster, call.shapes,
                               call.raster.transform.e <= 0, 0, 0))
           \notin {<<0, 0, 0, 0>>, <<0, 0, Width, Height>>}

\* The raster pixel that output pixel (i, j) of mask() shows: the window's
\* offset is added when a window was returned.
SourceRow(i) == IF geom[1].window = None THEN i ELSE geom[1].window[1].row_off + i
SourceCol(j) == IF geom[1].window = None THEN j ELSE geom[1].window[1].col_off + j

\* Output pixel (b, i, j) is invalid in the raster's own mask or masked by
\* the shapes.
Excluded(b, i, j) ==
    call.raster.invalid[b][SourceRow(i)][SourceCol(j)] \/ geom[1].mask[i][j]

OutBands == 1..call.raster.count
OutRows == 1..Len(geom[1].mask)
OutCols == 1..Len(geom[1].mask[1])

\* C6: in the output of mask(), a pixel of any band is excluded exactly
\* when it is invalid in the raster's own mask or the shape mask is True at
\* its (row, col); a pixel invalid in the raster stays excluded whatever the
\* shape mask says.
C6_MaskIsUnion ==
    (call.fn = "mask" /\ pc \in {"fill", "done"}) =>
        /\ Len(out_image[1].mask) = call.raster.count
        /\ \A b \in OutBands :
              HasShape(out_image[1].mask[b], Len(geom[1].mask), Len(geom[1].mask[1]))
        /\ \A b \in OutBands : \A i \in OutRows : \A j \in OutCols :
              out_image[1].mask[b][i][j] = Excluded(b, i, j)
        /\ (pc = "done" /\ ~call.filled) =>
              result[1].image.mask = Some(out_image[1].mask)

C6_Witness ==
    /\ call.fn = "mask" /\ pc = "done" /\ ~call.filled /\ call.crop
    /\ \E b \in OutBands : \E i \in OutRows : \E j \in OutCols :
          /\ call.raster.invalid[b][SourceRow(i)][SourceCol(j)]
          /\ ~geom[1].mask[i][j]
          /\ result[1].image.mask[1][b][i][j]
    /\ \E b \in OutBands : \E i \in OutRows : \E j \in OutCols :
          /\ ~call.raster.invalid[b][SourceRow(i)][SourceCol(j)]
          /\ geom[1].mask[i][j]

\* C7: mask() with filled=True returns a plain grid holding the effective
\* nodata value at every excluded position and the raster's value at every
\* other; with filled=False it returns the raster's value at every position,
\* the excluded ones too, with the composed mask beside it.
C7_FillSemantics ==
    (call.fn = "mask" /\ pc = "done") =>
        /\ result[1].transform = geom[1].transform
        /\ Len(result[1].image.data) = call.raster.count
        /\ \A b \in OutBands :
              HasShape(result[1].image.data[b], Len(geom[1].mask), Len(geom[1].mask[1]))
        /\ call.filled =>
              /\ result[1].image.mask = None
              /\ \A b \in OutBands : \A i \in OutRows : \A j \in OutCols :
                    result[1].image.data[b][i][j] =
                        IF Excluded(b, i, j)
                        THEN nodata[1]
                        ELSE call.raster.data[b][SourceRow(i)][SourceCol(j)]
        /\ ~call.filled =>
              /\ result[1].image.mask # None
              /\ \A b \in OutBands : \A i \in OutRows : \A j \in OutCols :
                    /\ result[1].image.data[b][i][j] =
                           call.raster.data[b][SourceRow(i)][SourceCol(j)]
                    /\ result[1].image.mask[1][b][i][j] = Excluded(b, i, j)

C7_Witness ==
    /\ call.fn = "mask" /\ pc = "done" /\ ~call.filled
    /\ \E b \in OutBands : \E i \in OutRows : \E j \in OutCols :
          /\ result[1].image.mask[1][b][i][j]
          /\ result[1].image.data[b][i][j] # nodata[1]
    /\ \E b \in OutBands : \E i \in OutRows : \E j \in OutCols :
          ~result[1].image.mask[1][b][i][j]

\* C8: the fill value of mask() is the caller's nodata when one is given, a
\* given 0 included; else the raster's nodata when it has one, a 0 included;
\* else 0.
C8_EffectiveNodata ==
    (call.fn = "mask" /\ pc # "nodata") =>
        /\ call.nodata # None => nodata = call.nodata
        /\ (call.nodata = None /\ call.raster.nodata # None) =>
              nodata = call.raster.nodata
        /\ (call.nodata = None /\ call.raster.nodata = None) => nodata = Some(0)
        /\ (pc = "done" /\ call.filled /\ call.nodata # None) =>
              \A b \in OutBands : \A i \in OutRows : \A j \in OutCols :
                  Excluded(b, i, j) =>
                      result[1].image.data[b][i][j] = call.nodata[1]

C8_Witness ==
    /\ call.fn = "mask" /\ pc = "done" /\ call.filled
    /\ call.nodata = Some(0) /\ call.raster.nodata = Some(1)
    /\ \E b \in OutBands : \E i \in OutRows : \E j \in OutCols :
          /\ Excluded(b, i, j)
          /\ call.raster.data[b][SourceRow(i)][SourceCol(j)] # 0
          /\ result[1].image.data[b][i][j] = 0

\* The window that the same call with pad=False computes.
UnpaddedWindow ==
    geometry_window(call.raster, call.shapes, call.raster.transform.e <= 0, 0, 0)

\* C9: geometry_window receives half a pixel of padding exactly when crop
\* and pad are both true and no padding otherwise; and when the call with
\* crop=True, pad=False succeeds, the call with pad=True on the same inputs
\* succeeds with a window no smaller in height or in width.
C9_PaddingNeverShrinks ==
    /\ Invoked("geometry_window") =>
          <<calls[1][3], calls[1][4]>> =
              IF call.crop /\ call.pad THEN <<1, 1>> ELSE <<0, 0>>
    /\ (call.crop /\ ~call.pad /\ pc # "overlap" /\ window # None) =>
          /\ window[1] = UnpaddedWindow
          /\ error = "" <=> Flatten(UnpaddedWindow) # <<0, 0, 0, 0>>
    /\ (call.crop /\ ~call.invert /\ call.pad /\ pc # "overlap" /\ window # None
            /\ Flatten(UnpaddedWindow) # <<0, 0, 0, 0>>) =>
          /\ error = ""
          /\ window[1].height >= UnpaddedWindow.height
          /\ window[1].width >= UnpaddedWindow.width
          /\ geom # None =>
                /\ geom[1].window # None
                /\ geom[1].window[1].height >= UnpaddedWindow.height
                /\ geom[1].window[1].width >= UnpaddedWindow.width

C9_Witness ==
    /\ call.fn = "raster_geom_mask" /\ call.crop /\ call.pad /\ pc = "done"
    /\ Flatten(UnpaddedWindow) # <<0, 0, 0, 0>>
    /\ result[1].window[1].height > UnpaddedWindow.height
    /\ result[1].window[1].width > UnpaddedWindow.width

====
